---- MODULE Spec2Model ----
(***************************************************************************)
(* The YAML resource compiler of bundle-utils (generate and its tree       *)
(* walker _generate) and the unplugin-vue-i18n plugin entry points that    *)
(* call it (transform, load / generateBundleResources).                    *)
(***************************************************************************)
EXTENDS Integers, Sequences, FiniteSets, TLC

(***************************************************************************)
(* Bounds of the model.                                                    *)
(***************************************************************************)
\* Largest number of value nodes (mappings, sequences, scalar values,
\* value-less pairs) of a document the walker is run on.
MaxNodes == 3

(***************************************************************************)
(* JavaScript scalar values, as yaml-eslint-parser hands them over in      *)
(* YAMLScalar.value: a string, a number, a boolean or null.  s is the      *)
(* string itself for a string and the JSON text for the other types.       *)
(***************************************************************************)
StrV(s) == [t |-> "string", s |-> s]
NumV(s) == [t |-> "number", s |-> s]
BoolV(s) == [t |-> "boolean", s |-> s]
NullV == [t |-> "null", s |-> "null"]

isString(v) == v.t = "string"

\* JSON.stringify of a scalar value.
JSONstringify(v) == IF isString(v) THEN "\"" \o v.s \o "\"" ELSE v.s

\* JavaScript truthiness of a scalar value (the test in `name && ...`).
Truthy(v) ==
    CASE v.t = "string" -> v.s # ""
      [] v.t = "number" -> v.s # "0"
      [] v.t = "boolean" -> v.s = "true"
      [] OTHER -> FALSE

\* name.toString() of a truthy scalar value.
toString(v) == v.s

(***************************************************************************)
(* The AST of yaml-eslint-parser.                                          *)
(***************************************************************************)
NoNode == [type |-> "null"]
YAMLScalar(v) == [type |-> "YAMLScalar", value |-> v]
YAMLPair(k, v) == [type |-> "YAMLPair", key |-> k, value |-> v]
YAMLMapping(ps) == [type |-> "YAMLMapping", pairs |-> ps]
YAMLSequence(es) == [type |-> "YAMLSequence", entries |-> es]
YAMLDocument(c) == [type |-> "YAMLDocument", content |-> c]
Program(ds) == [type |-> "Program", body |-> ds]

\* The scalar values and the mapping keys the documents are built from.
ScalarValues == {StrV("x"), StrV("5"), NumV("5")}
KeyValues == {StrV("a"), StrV("")}

RECURSIVE TreesOfSize(_), EntryLists(_), PairLists(_)
\* The content trees of exactly n value nodes.
TreesOfSize(n) ==
    IF n <= 0 THEN {}
    ELSE (IF n = 1 THEN {YAMLScalar(v) : v \in ScalarValues} ELSE {})
         \cup {YAMLSequence(es) : es \in EntryLists(n - 1)}
         \cup {YAMLMapping(ps) : ps \in PairLists(n - 1)}
\* The entry lists of a sequence whose entries have m value nodes in all; an
\* empty entry (`- `) counts as one.
EntryLists(m) ==
    IF m = 0 THEN {<<>>}
    ELSE UNION {{<<t>> \o rest :
                    t \in TreesOfSize(k) \cup (IF k = 1 THEN {NoNode} ELSE {}),
                    rest \in EntryLists(m - k)} :
                k \in 1..m}
\* The pair lists of a mapping whose pairs have m value nodes in all; a pair
\* without a value (`a:`) counts as one.
PairLists(m) ==
    IF m = 0 THEN {<<>>}
    ELSE UNION {{<<YAMLPair(YAMLScalar(key), t)>> \o rest :
                    key \in KeyValues,
                    t \in TreesOfSize(k) \cup (IF k = 1 THEN {NoNode} ELSE {}),
                    rest \in PairLists(m - k)} :
                k \in 1..m}

Contents == {NoNode} \cup UNION {TreesOfSize(n) : n \in 1..MaxNodes}
Documents == {Program(<<YAMLDocument(c)>>) : c \in Contents}

(***************************************************************************)
(* State.                                                                  *)
(***************************************************************************)
VARIABLES
    opts,               \* the CodeGenOptions of the call
    noMapFor,           \* the literals the message compiler returns no map for
    source,             \* the Program the call's source text parses to
    pc,                 \* where the call is: "generate", "legacy", "walk", "walked", "done"
    ast,                \* the Program handed to _generate
    visit,              \* traverseNodes' recursion: <<[node, next child]>>
    pathStack,
    propsCountStack,
    itemsCountStack,
    codeMaps,           \* Map<string, RawSourceMap>, a function on its keys
    code,               \* the generator's output buffer, a token sequence
    calls,              \* the invocations of the message compiler so far
    result,             \* what generate returned
    plugin,             \* the plugin instance's options and build settings
    request,            \* the transform call: the module id and its code
    tpc,                \* where the transform call is
    returned,           \* what transform returned to the bundler
    globbed,            \* load: the paths fast-glob found, in order
    resources,          \* generateBundleResources: its resource list
    idx,                \* the loop's position in resources
    reading,            \* the reads (getRaw) that have not completed yet
    codes,              \* the entries pushed so far
    bpc,                \* where the load call is
    parked              \* the plugin's other transform calls, each with its frame

walkVars == <<visit, pathStack, propsCountStack, itemsCountStack, codeMaps, code, calls>>
callVars == <<opts, noMapFor, source, ast, result>>
pluginVars == <<plugin, request, tpc, returned>>
bundleVars == <<globbed, resources, idx, reading, codes, bpc>>
otherVars == <<pluginVars, bundleVars, parked>>
vars == <<pc, callVars, walkVars, otherVars>>

(***************************************************************************)
(* The code generator's buffer (createCodeGenerator): append-only; a token *)
(* per push, white space and indentation left out.                         *)
(***************************************************************************)
Tok(k, v) == [k |-> k, v |-> v]
Text(s) == Tok("text", s)
push(buf, tok) == Append(buf, tok)

(***************************************************************************)
(* The message compiler (codegenFn): called with a literal and the path    *)
(* stack, it returns code and possibly a map.  The map is a fresh object   *)
(* per call, named here by the call's ordinal.                             *)
(***************************************************************************)
NoMap == [source |-> "", call |-> 0]
\* Mutant of codegenFn: the strategy also depends on where the leaf is.
codegenFnUnderPairs ==
    IF opts.jit /\ itemsCountStack = <<>> THEN "generateResourceAst"
    ELSE "generateMessageFunction"
\* `jit ? generateResourceAst : generateMessageFunction`
codegenFn == IF opts.jit THEN "generateResourceAst" ELSE "generateMessageFunction"
CompileMap(literal) ==
    IF literal \in noMapFor THEN NoMap
    ELSE [source |-> literal, call |-> Len(calls) + 1]
CompileCode(literal) == Tok(codegenFn, literal)
Call(literal, path) ==
    [fn |-> codegenFn, literal |-> literal, path |-> path, map |-> CompileMap(literal)]

(***************************************************************************)
(* traverseNodes: the children of a node in visiting order.                *)
(***************************************************************************)
Present(ns) == SelectSeq(ns, LAMBDA n : n.type # "null")
Children(n) ==
    CASE n.type = "Program" -> n.body
      [] n.type = "YAMLDocument" -> Present(<<n.content>>)
      [] n.type = "YAMLMapping" -> n.pairs
      [] n.type = "YAMLPair" -> Present(<<n.key, n.value>>)
      [] n.type = "YAMLSequence" -> Present(n.entries)
      [] OTHER -> <<>>

Cur == visit[Len(visit)]
HasNext == Cur.next <= Len(Children(Cur.node))
CanEnter == pc = "walk" /\ (IF visit = <<>> THEN TRUE ELSE HasNext)
CanLeave == pc = "walk" /\ visit # <<>> /\ ~HasNext
\* The node entered next and its parent.
EnterNode == IF visit = <<>> THEN ast ELSE Children(Cur.node)[Cur.next]
EnterParent == IF visit = <<>> THEN NoNode ELSE Cur.node
\* The node left next and its parent.
LeaveNode == Cur.node
LeaveParent == IF Len(visit) = 1 THEN NoNode ELSE visit[Len(visit) - 1].node

\* A frame holds the node, the child visited next, and the length of the
\* path stack when the node was entered.
Descend ==
    visit' = Append(visit, [node |-> EnterNode, next |-> 1, depth |-> Len(pathStack)])
Ascend ==
    visit' = IF Len(visit) = 1 THEN <<>>
             ELSE [SubSeq(visit, 1, Len(visit) - 1) EXCEPT ![Len(visit) - 1].next = @ + 1]

(***************************************************************************)
(* JavaScript array helpers.                                               *)
(***************************************************************************)
\* stack.pop(): nothing happens on an empty array.
Pop(s) == IF s = <<>> THEN s ELSE SubSeq(s, 1, Len(s) - 1)
\* stack[last] = --stack[last]
DecLast(s) == IF s = <<>> THEN s ELSE [s EXCEPT ![Len(s)] = @ - 1]
\* stack[stack.length - 1] === 0 (undefined on an empty array)
LastIsZero(s) == s # <<>> /\ s[Len(s)] = 0
\* codeMaps.set(key, map)
MapSet(m, key, map) == [k \in DOMAIN m \cup {key} |-> IF k = key THEN map ELSE m[k]]

(***************************************************************************)
(* Compile errors: the compiler reports a message it cannot compile to the *)
(* onError callback of the options.                                        *)
(***************************************************************************)
\* `onError = undefined`, and the callback getOptions makes for a file.
NoCallback == [defined |-> FALSE, filename |-> ""]
Callback(filename) == [defined |-> TRUE, filename |-> filename]
\* The messages the compiler rejects.
MalformedMessages == {"{"}

\* Mutant of onError: the message does not name the file.
onErrorWithoutFile(callback, msg, path) ==
    [message |-> <<msg, " (error code: ", ") in ", "target message path: ", path>>]
\* onError(msg, extra): the error it throws.
onError(callback, msg, path) ==
    [message |-> <<msg, " (error code: ", ") in ", callback.filename,
                   "target message path: ", path>>]

(***************************************************************************)
(* _generate: enterNode.                                                   *)
(***************************************************************************)
\* `name && pathStack.push(name.toString())`
PushName(ps, name) == IF Truthy(name) THEN Append(ps, toString(name)) ELSE ps

\* Mutant of Register: the sourceMap option is not consulted.
RegisterWithoutOption(m, literal, map) ==
    IF map # NoMap THEN MapSet(m, literal, map) ELSE m
\* `sourceMap && map != null && codeMaps.set(literal, map)`
Register(m, literal, map) ==
    IF opts.sourceMap /\ map # NoMap THEN MapSet(m, literal, map) ELSE m

\* The literal a scalar leaf is compiled from, "" when it is not compiled.
CompiledLiteral(value) ==
    IF isString(value) THEN value.s
    ELSE IF opts.forceStringify THEN JSONstringify(value) ELSE ""
\* Mutant of Compiles: forceStringify is ignored.
CompilesStringsOnly(value) == isString(value)
\* Whether the leaf goes through the compiler: `isString(value)`, else
\* `forceStringify`.
Compiles(value) == isString(value) \/ opts.forceStringify

\* Whether compiling the leaf ends in the error callback.
Raises(value) ==
    Compiles(value) /\ CompiledLiteral(value) \in MalformedMessages /\ opts.onError.defined
RaisesAt(node, parent) ==
    CASE node.type = "YAMLPair" ->
            node.value.type = "YAMLScalar" /\ node.key.type = "YAMLScalar"
                /\ Raises(node.value.value)
      [] node.type = "YAMLScalar" -> parent.type = "YAMLSequence" /\ Raises(node.value)
      [] OTHER -> FALSE

\* The index of the entry being entered in its parent sequence.
currentCount(parent) == Len(parent.entries) - itemsCountStack[Len(itemsCountStack)]

EnterProgram ==
    /\ CanEnter /\ EnterNode.type = "Program"
    /\ code' =
        IF opts.type = "plain" THEN push(code, Text("const resource = "))
        ELSE IF opts.type = "sfc" THEN
            LET variableName == IF ~opts.isGlobal THEN "__i18n" ELSE "__i18nGlobal"
                exportSyntax == IF opts.bridge
                                THEN (IF opts.exportESM THEN "export default"
                                      ELSE "module.exports =")
                                ELSE "export default"
                componentVariable ==
                    IF opts.bridge THEN "Component.options || Component"
                    ELSE IF opts.useClassComponent
                         THEN "Component.__o || Component.__vccOpts || Component"
                         ELSE "Component"
            IN code \o
               << Text(exportSyntax \o " function (Component) {"),
                  Text("const _Component = " \o componentVariable),
                  Text("_Component." \o variableName \o " = _Component."
                        \o variableName \o " || []"),
                  Text("_Component." \o variableName \o ".push({"),
                  Text("\"locale\": " \o JSONstringify(StrV(opts.locale)) \o ","),
                  Text("\"resource\": ") >>
        ELSE code
    /\ Descend
    /\ UNCHANGED <<pathStack, propsCountStack, itemsCountStack, codeMaps, calls>>
    /\ UNCHANGED <<pc, callVars, otherVars>>

EnterYAMLMapping ==
    /\ CanEnter /\ EnterNode.type = "YAMLMapping"
    /\ code' = push(code, Text("{"))
    /\ propsCountStack' = Append(propsCountStack, Len(EnterNode.pairs))
    /\ IF EnterParent.type = "YAMLSequence"
       THEN /\ pathStack' = Append(pathStack, ToString(currentCount(EnterParent)))
            /\ itemsCountStack' = DecLast(itemsCountStack)
       ELSE UNCHANGED <<pathStack, itemsCountStack>>
    /\ Descend
    /\ UNCHANGED <<codeMaps, calls>>
    /\ UNCHANGED <<pc, callVars, otherVars>>

EnterYAMLPair ==
    /\ CanEnter /\ EnterNode.type = "YAMLPair"
    /\ ~RaisesAt(EnterNode, EnterParent)
    /\ LET node == EnterNode
           name == node.key.value
           keyTok == Tok("key", JSONstringify(name))
       IN IF node.value.type = "YAMLScalar" /\ node.key.type = "YAMLScalar"
          THEN LET value == node.value.value
                   literal == CompiledLiteral(value)
                   path == PushName(pathStack, name)
               IN /\ pathStack' = path
                  /\ IF Compiles(value)
                     THEN /\ calls' = Append(calls, Call(literal, path))
                          /\ codeMaps' = Register(codeMaps, literal, CompileMap(literal))
                          /\ code' = push(push(code, keyTok), CompileCode(literal))
                     ELSE /\ code' = push(push(code, keyTok),
                                          Tok("json", JSONstringify(value)))
                          /\ UNCHANGED <<codeMaps, calls>>
          ELSE IF node.value.type \in {"YAMLMapping", "YAMLSequence"}
                  /\ node.key.type = "YAMLScalar"
          THEN /\ code' = push(code, keyTok)
               /\ pathStack' = PushName(pathStack, name)
               /\ UNCHANGED <<codeMaps, calls>>
          ELSE UNCHANGED <<code, pathStack, codeMaps, calls>>
    /\ propsCountStack' = DecLast(propsCountStack)
    /\ Descend
    /\ UNCHANGED itemsCountStack
    /\ UNCHANGED <<pc, callVars, otherVars>>

EnterYAMLSequence ==
    /\ CanEnter /\ EnterNode.type = "YAMLSequence"
    /\ code' = push(code, Text("["))
    /\ IF EnterParent.type = "YAMLSequence"
       THEN /\ pathStack' = Append(pathStack, ToString(currentCount(EnterParent)))
            /\ itemsCountStack' =
                   Append(DecLast(itemsCountStack), Len(EnterNode.entries))
       ELSE /\ itemsCountStack' = Append(itemsCountStack, Len(EnterNode.entries))
            /\ UNCHANGED pathStack
    /\ Descend
    /\ UNCHANGED <<propsCountStack, codeMaps, calls>>
    /\ UNCHANGED <<pc, callVars, otherVars>>

EnterYAMLScalar ==
    /\ CanEnter /\ EnterNode.type = "YAMLScalar"
    /\ ~RaisesAt(EnterNode, EnterParent)
    /\ IF EnterParent.type = "YAMLSequence"
       THEN LET value == EnterNode.value
                literal == CompiledLiteral(value)
                path == Append(pathStack, ToString(currentCount(EnterParent)))
            IN /\ pathStack' = path
               /\ IF Compiles(value)
                  THEN /\ calls' = Append(calls, Call(literal, path))
                       /\ codeMaps' = Register(codeMaps, literal, CompileMap(literal))
                       /\ code' = push(code, CompileCode(literal))
                  ELSE /\ code' = push(code, Tok("json", JSONstringify(value)))
                       /\ UNCHANGED <<codeMaps, calls>>
               /\ itemsCountStack' = DecLast(itemsCountStack)
       ELSE UNCHANGED <<pathStack, itemsCountStack, codeMaps, code, calls>>
    /\ Descend
    /\ UNCHANGED propsCountStack
    /\ UNCHANGED <<pc, callVars, otherVars>>

\* enterNode of a leaf whose compilation calls onError: what is written
\* before the call, then the callback's error leaves _generate and generate.
CompileThrows ==
    /\ CanEnter /\ RaisesAt(EnterNode, EnterParent)
    /\ LET node == EnterNode
           pair == node.type = "YAMLPair"
           value == IF pair THEN node.value.value ELSE node.value
           path == IF pair THEN PushName(pathStack, node.key.value)
                   ELSE Append(pathStack, ToString(currentCount(EnterParent)))
       IN /\ pathStack' = path
          /\ code' = IF pair THEN push(code, Tok("key", JSONstringify(node.key.value)))
                     ELSE code
          /\ result' = [code |-> <<>>, map |-> [kind |-> "none"],
                        error |-> onError(opts.onError, CompiledLiteral(value), path)]
    /\ pc' = "threw"
    /\ UNCHANGED <<visit, propsCountStack, itemsCountStack, codeMaps, calls>>
    /\ UNCHANGED <<opts, noMapFor, source, ast, otherVars>>

\* YAMLDocument (and any other node type): `default: break`.
EnterDefault ==
    /\ CanEnter /\ EnterNode.type = "YAMLDocument"
    /\ Descend
    /\ UNCHANGED <<pathStack, propsCountStack, itemsCountStack, codeMaps, code, calls>>
    /\ UNCHANGED <<pc, callVars, otherVars>>

(***************************************************************************)
(* _generate: leaveNode.                                                   *)
(***************************************************************************)
\* Mutant of PairNotLast: tests that a mapping is open, not its counter.
PairNotLastWhenOpen == propsCountStack # <<>>
\* A separator follows the pair: `propsCountStack[last] !== 0`.
PairNotLast == ~LastIsZero(propsCountStack)
\* `itemsCountStack[last] !== 0` for a node whose parent is a sequence.
EntryNotLast(items) == ~LastIsZero(items)
\* What leaving a scalar entry writes, by whether it is the last entry or not.
ScalarEntrySeparator(notLast) == IF notLast THEN <<Text(",")>> ELSE <<Text(",")>>

LeaveProgram ==
    /\ CanLeave /\ LeaveNode.type = "Program"
    /\ code' =
        IF opts.type = "sfc" THEN
            code \o <<Text("})")>>
                 \o (IF opts.bridge /\ opts.injector
                     THEN << Text("_Component.__i18nBridge = _Component.__i18nBridge || []"),
                             Text("_Component.__i18nBridge.push('injector()')"),
                             Text("delete _Component._Ctor") >>
                     ELSE <<>>)
                 \o <<Text("}")>>
        ELSE IF opts.type = "plain"
        THEN code \o <<Text("\n"), Text("export default resource")>>
        ELSE code
    /\ Ascend
    /\ pc' = "walked"
    /\ UNCHANGED <<pathStack, propsCountStack, itemsCountStack, codeMaps, calls>>
    /\ UNCHANGED <<callVars, otherVars>>

LeaveYAMLMapping ==
    /\ CanLeave /\ LeaveNode.type = "YAMLMapping"
    /\ LET done == LastIsZero(propsCountStack)
           path1 == IF done THEN Pop(pathStack) ELSE pathStack
           sep == LeaveParent.type = "YAMLSequence" /\ EntryNotLast(itemsCountStack)
       IN /\ propsCountStack' = IF done THEN Pop(propsCountStack) ELSE propsCountStack
          /\ pathStack' = IF sep THEN Pop(path1) ELSE path1
          /\ code' = code \o <<Text("}")>> \o (IF sep THEN <<Text(",")>> ELSE <<>>)
    /\ Ascend
    /\ UNCHANGED <<itemsCountStack, codeMaps, calls>>
    /\ UNCHANGED <<pc, callVars, otherVars>>

LeaveYAMLPair ==
    /\ CanLeave /\ LeaveNode.type = "YAMLPair"
    /\ IF PairNotLast
       THEN /\ pathStack' = Pop(pathStack)
            /\ code' = push(code, Text(","))
       ELSE UNCHANGED <<pathStack, code>>
    /\ Ascend
    /\ UNCHANGED <<propsCountStack, itemsCountStack, codeMaps, calls>>
    /\ UNCHANGED <<pc, callVars, otherVars>>

LeaveYAMLSequence ==
    /\ CanLeave /\ LeaveNode.type = "YAMLSequence"
    /\ LET done == LastIsZero(itemsCountStack)
           path1 == IF done THEN Pop(pathStack) ELSE pathStack
           items1 == IF done THEN Pop(itemsCountStack) ELSE itemsCountStack
           sep == LeaveParent.type = "YAMLSequence" /\ EntryNotLast(items1)
       IN /\ itemsCountStack' = items1
          /\ pathStack' = IF sep THEN Pop(path1) ELSE path1
          /\ code' = code \o <<Text("]")>> \o (IF sep THEN <<Text(",")>> ELSE <<>>)
    /\ Ascend
    /\ UNCHANGED <<propsCountStack, codeMaps, calls>>
    /\ UNCHANGED <<pc, callVars, otherVars>>

LeaveYAMLScalar ==
    /\ CanLeave /\ LeaveNode.type = "YAMLScalar"
    /\ IF LeaveParent.type = "YAMLSequence"
       THEN /\ pathStack' = IF EntryNotLast(itemsCountStack)
                            THEN Pop(pathStack) ELSE pathStack
            /\ code' = code \o ScalarEntrySeparator(EntryNotLast(itemsCountStack))
       ELSE UNCHANGED <<pathStack, code>>
    /\ Ascend
    /\ UNCHANGED <<propsCountStack, itemsCountStack, codeMaps, calls>>
    /\ UNCHANGED <<pc, callVars, otherVars>>

LeaveDefault ==
    /\ CanLeave /\ LeaveNode.type = "YAMLDocument"
    /\ Ascend
    /\ UNCHANGED <<pathStack, propsCountStack, itemsCountStack, codeMaps, code, calls>>
    /\ UNCHANGED <<pc, callVars, otherVars>>

(***************************************************************************)
(* The walker on its own: _generate(generator, node, options).             *)
(***************************************************************************)
EmptyMap == [k \in {} |-> NoMap]

WalkOptions ==
    [type : {"plain", "sfc"}, forceStringify : BOOLEAN, sourceMap : BOOLEAN,
     jit : {FALSE}, legacy : {FALSE}, locale : {""}, onlyLocales : {<<>>},
     isGlobal : {FALSE}, bridge : {FALSE}, exportESM : {FALSE},
     useClassComponent : {FALSE}, injector : {FALSE}, onError : {NoCallback}]

WalkStart ==
    /\ visit = <<>>
    /\ pathStack = <<>>
    /\ propsCountStack = <<>>
    /\ itemsCountStack = <<>>
    /\ codeMaps = EmptyMap
    /\ code = <<>>
    /\ calls = <<>>

\* No other call of the plugin is in progress.
NoOtherCalls == parked = <<>>

NoResult == [code |-> <<>>, map |-> [kind |-> "none"]]
NoPlugin ==
    /\ plugin = [framework |-> "none"]
    /\ request = [kind |-> "none"]
    /\ tpc = "idle"
    /\ returned = [kind |-> "none"]
NoBundle ==
    /\ globbed = <<>>
    /\ resources = <<>>
    /\ idx = 1
    /\ reading = {}
    /\ codes = <<>>
    /\ bpc = "idle"

Init ==
    /\ opts \in WalkOptions
    /\ noMapFor \in {{}, {"5"}}
    /\ source \in Documents
    /\ ast = source
    /\ result = NoResult
    /\ pc = "walk"
    /\ WalkStart
    /\ NoOtherCalls
    /\ NoPlugin
    /\ NoBundle

Walk ==
    \/ EnterProgram \/ EnterYAMLMapping \/ EnterYAMLPair
    \/ EnterYAMLSequence \/ EnterYAMLScalar \/ EnterDefault
    \/ LeaveProgram \/ LeaveYAMLMapping \/ LeaveYAMLPair
    \/ LeaveYAMLSequence \/ LeaveYAMLScalar \/ LeaveDefault

Next == Walk

Spec == Init /\ [][Next]_vars

(***************************************************************************)
(* generate: parse, locale filter, then the legacy emitter or the walker.  *)
(***************************************************************************)
\* Largest number of top-level pairs of a locale-keyed document.
MaxLocales == 2

\* JavaScript values as getStaticYAMLValue builds them from a tree.  An
\* object is the sequence of its properties in insertion order.
JSScalar(v) == [kind |-> "scalar", value |-> v]
JSObject(props) == [kind |-> "object", props |-> props]
JSArray(items) == [kind |-> "array", items |-> items]
Prop(key, value) == [key |-> key, value |-> value]

\* result[key] = value: a key already there keeps its place.
SetProp(props, key, value) ==
    IF \E i \in 1..Len(props) : props[i].key = key
    THEN [i \in 1..Len(props) |->
            IF props[i].key = key THEN Prop(key, value) ELSE props[i]]
    ELSE Append(props, Prop(key, value))

RECURSIVE getStaticYAMLValue(_), StaticPairs(_, _), StaticEntries(_)
getStaticYAMLValue(n) ==
    CASE n.type = "Program" -> getStaticYAMLValue(n.body[1])
      [] n.type = "YAMLDocument" -> getStaticYAMLValue(n.content)
      [] n.type = "YAMLMapping" -> JSObject(StaticPairs(n.pairs, <<>>))
      [] n.type = "YAMLSequence" -> JSArray(StaticEntries(n.entries))
      [] n.type = "YAMLScalar" -> JSScalar(n.value)
      [] OTHER -> JSScalar(NullV)
\* Object.assign of each pair in turn; a key becomes a property name.
StaticPairs(ps, props) ==
    IF ps = <<>> THEN props
    ELSE StaticPairs(Tail(ps),
            SetProp(props, Head(ps).key.value.s, getStaticYAMLValue(Head(ps).value)))
StaticEntries(es) ==
    IF es = <<>> THEN <<>>
    ELSE <<getStaticYAMLValue(Head(es))>> \o StaticEntries(Tail(es))

Range(q) == {q[i] : i \in 1..Len(q)}

\* excludeLocales({messages, onlyLocales}): only the top-level keys listed.
excludeLocales(messages, onlyLocales) ==
    IF messages.kind = "object"
    THEN JSObject(SelectSeq(messages.props, LAMBDA p : p.key \in Range(onlyLocales)))
    ELSE messages

RECURSIVE parseJSON(_)
\* parseYAML(JSON.stringify(value)): every key is a string scalar, every
\* property has a value node.
parseJSON(v) ==
    CASE v.kind = "object" ->
            YAMLMapping([i \in 1..Len(v.props) |->
                YAMLPair(YAMLScalar(StrV(v.props[i].key)), parseJSON(v.props[i].value))])
      [] v.kind = "array" ->
            YAMLSequence([i \in 1..Len(v.items) |-> parseJSON(v.items[i])])
      [] OTHER -> YAMLScalar(v.value)
Reparse(v) == Program(<<YAMLDocument(parseJSON(v))>>)

\* Mutant of NeedsLocaleFilter: the length test is inverted.
NeedsLocaleFilterWhenEmpty ==
    opts.locale = "" /\ opts.type = "sfc" /\ Len(opts.onlyLocales) = 0
\* `!locale && type === 'sfc' && onlyLocales?.length`
NeedsLocaleFilter ==
    opts.locale = "" /\ opts.type = "sfc" /\ Len(opts.onlyLocales) # 0

\* Mutant of UsesLegacy: the generation type is tested the wrong way round.
UsesLegacyUnlessSfc == opts.legacy /\ opts.type # "sfc"
\* `legacy && type === 'sfc'`
UsesLegacy == opts.legacy /\ opts.type = "sfc"

\* friendlyJSONstringify(value): one literal for the whole value.
friendlyJSONstringify(v) == Tok("serialized", v)
\* generateLegacyCode(options, gen): the fixed registration snippet around
\* the literal gen() returns.
generateLegacyCode(gen) ==
    << Text("export default function (Component) {"),
       Text("Component.options.__i18n = Component.options.__i18n || []"),
       Text("Component.options.__i18n.push("), gen, Text(")"),
       Text("delete Component.options._Ctor"),
       Text("}") >>

\* mapLinesColumns(map, codeMaps, inSourceMap): the merged document map.
mapLinesColumns(maps) == [kind |-> "merged", codeMaps |-> maps]

\* A source text given by its characters, with the tree it parses to; a
\* document stands for the text it was parsed from.
YAMLText(tokens, parsed) == [type |-> "Text", tokens |-> tokens, parsed |-> parsed]
\* parseYAML(value, { filePath: filename })
parseYAML(value) == IF value.type = "Text" THEN value.parsed ELSE value

\* The mutable state of generate and _generate is made anew by every call:
\* createCodeGenerator's buffer and the walker's stacks and codeMaps.  A
\* call of generate runs to its return without yielding, so one set of
\* variables holds the locals of whichever call is running.
KeptLocals == UNCHANGED walkVars
NewLocals ==
    /\ visit' = <<>>
    /\ pathStack' = <<>>
    /\ propsCountStack' = <<>>
    /\ itemsCountStack' = <<>>
    /\ codeMaps' = EmptyMap
    /\ code' = <<>>
    /\ calls' = <<>>

GenerateParse ==
    /\ pc = "generate"
    /\ ast' = IF NeedsLocaleFilter
              THEN Reparse(excludeLocales(getStaticYAMLValue(parseYAML(source)),
                                          opts.onlyLocales))
              ELSE parseYAML(source)
    /\ pc' = IF UsesLegacy THEN "legacy" ELSE "walk"
    /\ NewLocals
    /\ UNCHANGED <<opts, noMapFor, source, result, otherVars>>

GenerateLegacy ==
    /\ pc = "legacy"
    /\ result' = [code |-> generateLegacyCode(friendlyJSONstringify(getStaticYAMLValue(ast))),
                  map |-> [kind |-> "magic-string"]]
    /\ pc' = "done"
    /\ UNCHANGED <<opts, noMapFor, source, ast, walkVars, otherVars>>

GenerateReturn ==
    /\ pc = "walked"
    /\ result' = [code |-> code,
                  map |-> IF opts.sourceMap THEN mapLinesColumns(codeMaps)
                          ELSE [kind |-> "undefined"]]
    /\ pc' = "done"
    /\ UNCHANGED <<opts, noMapFor, source, ast, walkVars, otherVars>>

\* Locale-keyed documents: a root mapping of at most MaxLocales pairs.
LocaleKeys == {StrV("en"), StrV("fr")}
LocaleMessages ==
    { YAMLMapping(<<YAMLPair(YAMLScalar(StrV("a")), YAMLScalar(StrV("x")))>>),
      YAMLSequence(<<YAMLScalar(StrV("x"))>>),
      YAMLScalar(NumV("5")),
      NoNode }
RECURSIVE LocalePairs(_)
LocalePairs(n) ==
    IF n = 0 THEN {<<>>}
    ELSE {<<YAMLPair(YAMLScalar(k), m)>> \o rest :
            k \in LocaleKeys, m \in LocaleMessages, rest \in LocalePairs(n - 1)}
LocaleDocuments ==
    {Program(<<YAMLDocument(YAMLMapping(ps))>>) :
        ps \in UNION {LocalePairs(n) : n \in 0..MaxLocales}}

GenerateOptions ==
    [type : {"plain", "sfc"}, forceStringify : {FALSE}, sourceMap : BOOLEAN,
     jit : BOOLEAN, legacy : BOOLEAN, locale : {"", "en"},
     onlyLocales : {<<>>, <<"en">>},
     isGlobal : {FALSE}, bridge : {FALSE}, exportESM : {FALSE},
     useClassComponent : {FALSE}, injector : {FALSE}, onError : {NoCallback}]

InitGenerate ==
    /\ opts \in GenerateOptions
    /\ noMapFor = {}
    /\ source \in LocaleDocuments
    /\ ast = source
    /\ result = NoResult
    /\ pc = "generate"
    /\ WalkStart
    /\ NoOtherCalls
    /\ NoPlugin
    /\ NoBundle

NextGenerate == GenerateParse \/ GenerateLegacy \/ GenerateReturn \/ Walk

SpecGenerate == InitGenerate /\ [][NextGenerate]_vars

(***************************************************************************)
(* The plugin's transform hook: one request, from the call to the value    *)
(* handed back to the bundler.                                             *)
(***************************************************************************)
\* `{ mappings: '' }`
TrivialMap == [kind |-> "trivial"]

isCustomBlock(query) ==
    query.vue /\ (query.type \in {"custom", "i18n"} \/ query.blockType = "i18n")

\* /\.(json5?|ya?ml|[c|m]?js)$/.test(id)
IsTransformedFile(ext) ==
    ext \in {".json", ".json5", ".yml", ".yaml", ".js", ".cjs", ".mjs", "|js"}

\* Mutant of getGenerator: the default generator, whatever the extension.
getGeneratorDefault(ext) == "generateJSON"
getGenerator(ext) ==
    IF ext \in {".json", ".json5", "json", "json5"} THEN "generateJSON"
    ELSE IF ext \in {".yml", ".yaml"} THEN "generateYAML"
    ELSE IF ext \in {".js", ".cjs", ".mjs", "|js", ".ts", ".cts", ".mts", "|ts"}
    THEN "generateJavaScript"
    ELSE "generateJSON"

\* parseVueRequest(id).filename
Filename(query) == "file" \o query.ext

\* getOptions(filename, isProduction, query, sourceMap, {...}); an option
\* the caller leaves out takes its default.
getOptions(query, sourceMap, given) ==
    [type |-> IF isCustomBlock(query) THEN "sfc" ELSE "plain",
     locale |-> IF isCustomBlock(query) THEN query.locale ELSE "",
     isGlobal |-> IF isCustomBlock(query) THEN given.isGlobal \/ query.global ELSE FALSE,
     sourceMap |-> sourceMap,
     forceStringify |-> given.forceStringify,
     jit |-> given.jit,
     legacy |-> given.legacy,
     onlyLocales |-> given.onlyLocales,
     bridge |-> given.bridge,
     exportESM |-> given.exportESM,
     useClassComponent |-> given.useClassComponent,
     injector |-> given.bridge,
     onError |-> Callback(Filename(query))]

\* The options transform passes for a resource file (no `legacy`) and for a
\* custom block.
ResourceOptions ==
    [isGlobal |-> plugin.globalSFCScope, useClassComponent |-> plugin.useClassComponent,
     bridge |-> plugin.bridge, jit |-> plugin.jitCompilation, legacy |-> FALSE,
     onlyLocales |-> plugin.onlyLocales, exportESM |-> plugin.esm,
     forceStringify |-> plugin.forceStringify]
BlockOptions == [ResourceOptions EXCEPT !.legacy = plugin.legacy]

\* Mutant of TransformMap: the jitCompilation test is left out.
TransformMapIgnoringJit(jit, sourceMap, map) ==
    IF sourceMap THEN map ELSE TrivialMap
\* `jitCompilation ? { mappings: '' } : sourceMap ? map : { mappings: '' }`
TransformMap(jit, sourceMap, map) ==
    IF jit THEN TrivialMap ELSE IF sourceMap THEN map ELSE TrivialMap

\* Documents a request carries: a root mapping of at most one pair.
MalformedDocuments ==
    {Program(<<YAMLDocument(YAMLMapping(<<YAMLPair(YAMLScalar(StrV("en")), m)>>))>>) :
        m \in {YAMLScalar(StrV("{")), YAMLSequence(<<YAMLScalar(StrV("{"))>>)}}
TransformDocuments ==
    {d \in LocaleDocuments : Len(d.body[1].content.pairs) <= 1} \cup MalformedDocuments
\* The text of a document, as one token.
TextOf(doc) == IF doc.type = "Text" THEN doc.tokens ELSE <<Tok("yaml", doc)>>

\* The text `const resource = ` / `export default resource`: as YAML it is a
\* plain scalar over two lines, and it is what the walker makes of a root
\* scalar for type plain.
PlainModuleText ==
    YAMLText(<<Text("const resource = "), Text("\n"), Text("export default resource")>>,
             Program(<<YAMLDocument(YAMLScalar(StrV("const resource = export default resource")))>>))
\* The code a custom block with an empty mapping compiles to, handed to
\* transform once more.
CompiledBlockText(locale) ==
    YAMLText(<< Text("export default function (Component) {"),
                Text("const _Component = Component"),
                Text("_Component.__i18n = _Component.__i18n || []"),
                Text("_Component.__i18n.push({"),
                Text("\"locale\": " \o JSONstringify(StrV(locale)) \o ","),
                Text("\"resource\": "), Text("{"), Text("}"), Text("})"), Text("}") >>,
             NoNode)

\* Mutant of Unchanged: the generated code is never taken for unchanged.
UnchangedNever(input, generated) == FALSE
\* `code === generatedCode`
Unchanged(input, generated) == TextOf(input) = generated

TransformBegin ==
    /\ tpc = "transform"
    /\ IF ~request.vue
       THEN IF IsTransformedFile(request.ext) /\ request.included
            THEN /\ opts' = getOptions(request, plugin.sourceMap, ResourceOptions)
                 /\ source' = request.code
                 /\ pc' = "generate"
                 /\ tpc' = "generate"
                 /\ UNCHANGED returned
            ELSE /\ returned' = [kind |-> "undefined"]
                 /\ tpc' = "returned"
                 /\ UNCHANGED <<opts, source, pc>>
       ELSE IF isCustomBlock(request)
            THEN /\ opts' = getOptions(request, plugin.sourceMap, BlockOptions)
                 /\ tpc' = "getCode"
                 /\ UNCHANGED <<source, pc, returned>>
            ELSE /\ returned' = [kind |-> "undefined"]
                 /\ tpc' = "returned"
                 /\ UNCHANGED <<opts, source, pc>>
    /\ UNCHANGED <<noMapFor, ast, result, plugin, request, walkVars, bundleVars, parked>>

\* await getCode(code, filename, sourceMap, query, framework): under webpack
\* the block is read from the file, otherwise it is the code passed in.
getCode ==
    /\ tpc = "getCode"
    /\ IF ~request.index
       THEN /\ tpc' = "threw"
            /\ UNCHANGED <<source, pc>>
       ELSE /\ IF plugin.framework = "webpack"
               THEN source' \in TransformDocuments
               ELSE source' = request.code
            /\ pc' = "generate"
            /\ tpc' = "generate"
    /\ UNCHANGED <<opts, noMapFor, ast, result, walkVars>>
    /\ UNCHANGED <<plugin, request, returned, bundleVars, parked>>

TransformReturn ==
    /\ tpc = "generate" /\ pc = "done"
    /\ returned' =
          IF Unchanged(request.code, result.code) THEN [kind |-> "undefined"]
          ELSE [kind |-> "result", code |-> result.code,
                map |-> TransformMap(plugin.jitCompilation, plugin.sourceMap, result.map)]
    /\ tpc' = "returned"
    /\ UNCHANGED <<pc, callVars, walkVars, plugin, request, bundleVars, parked>>

\* The error generate threw rejects the promise transform returned.
TransformThrow ==
    /\ tpc = "generate" /\ pc = "threw"
    /\ returned' = [kind |-> "error", error |-> result.error]
    /\ tpc' = "threw"
    /\ UNCHANGED <<pc, callVars, walkVars, plugin, request, bundleVars, parked>>

PluginConfigs ==
    [framework : {"vite", "webpack"}, jitCompilation : BOOLEAN, sourceMap : BOOLEAN,
     legacy : BOOLEAN, onlyLocales : {<<>>, <<"en">>}, forceStringify : {FALSE},
     globalSFCScope : {FALSE}, bridge : {FALSE}, esm : {TRUE},
     useClassComponent : {FALSE}]

Requests ==
    [vue : {FALSE}, type : {""}, blockType : {""}, locale : {""}, global : {FALSE},
     index : {FALSE}, ext : {".yaml", ".css"}, included : BOOLEAN,
     code : TransformDocuments \cup {PlainModuleText}]
    \cup
    [vue : {TRUE}, type : {"custom", "template"}, blockType : {""},
     locale : {"", "en"}, global : {FALSE}, index : BOOLEAN, ext : {".vue"},
     included : {TRUE}, code : TransformDocuments \cup {CompiledBlockText("")}]

\* Compiled code comes back as a block's code only where the block itself
\* is read from the file (webpack).
InitTransform ==
    /\ plugin \in PluginConfigs
    /\ request \in Requests
    /\ (request.vue /\ request.code.type = "Text") => plugin.framework = "webpack"
    /\ tpc = "transform"
    /\ returned = [kind |-> "none"]
    /\ opts = [type |-> "none"]
    /\ noMapFor = {}
    /\ source = NoNode
    /\ ast = NoNode
    /\ result = NoResult
    /\ pc = "idle"
    /\ WalkStart
    /\ NoOtherCalls
    /\ NoBundle

NextTransform ==
    \/ TransformBegin \/ getCode \/ TransformReturn \/ TransformThrow
    \/ GenerateParse \/ GenerateLegacy \/ GenerateReturn \/ Walk \/ CompileThrows

SpecTransform == InitTransform /\ [][NextTransform]_vars

(***************************************************************************)
(* The plugin's load hook for the bundle import id, and                    *)
(* generateBundleResources.                                                *)
(***************************************************************************)
\* Largest number of paths the globs find, over all include patterns.
MaxPaths == 3

Path(dir, name, ext) == [dir |-> dir, name |-> name, ext |-> ext]
BundlePaths ==
    { Path("locales", "en", ".json"), Path("locales", "ja", ".yml"),
      Path("shared", "en", ".yaml"), Path("locales", "README", ".md") }
RECURSIVE PathLists(_)
PathLists(n) ==
    IF n = 0 THEN {<<>>}
    ELSE {<<p>> \o rest : p \in BundlePaths, rest \in PathLists(n - 1)}

indexOf(q, el) == CHOOSE i \in 1..Len(q) : q[i] = el /\ \A j \in 1..(i - 1) : q[j] # el
RECURSIVE FilterAt(_, _)
\* resourcePaths.filter((el, pos) => resourcePaths.indexOf(el) === pos)
FilterAt(q, pos) ==
    IF pos > Len(q) THEN <<>>
    ELSE (IF indexOf(q, q[pos]) = pos THEN <<q[pos]>> ELSE <<>>) \o FilterAt(q, pos + 1)
Dedup(q) == FilterAt(q, 1)

\* /\.(json5?|ya?ml)$/.test(res)
IsResourceFile(res) == res.ext \in {".json", ".json5", ".yml", ".yaml"}
\* generateBundleResources: `/json5?/.test(ext) ? generateJSON : generateYAML`
\* for a path that matches /\.(json5?|ya?ml)$/.
BundleGenerator(ext) ==
    IF ext \in {".json", ".json5", ".yml", ".yaml"}
    THEN (IF ext \in {".json", ".json5"} THEN "generateJSON" ELSE "generateYAML")
    ELSE "none"
\* `${JSON.stringify(name)}: ${code}`, code being what the generator chosen
\* by the extension makes of the file's content.
Entry(res) ==
    [name |-> JSONstringify(StrV(res.name)),
     generate |-> BundleGenerator(res.ext),
     source |-> res]

\* Mutant of Suspended: the read is not awaited.
NeverSuspended == FALSE
\* `await getRaw(res)`: the loop does not go on while a read is outstanding.
Suspended == reading # {}

LoadBegin ==
    /\ bpc = "load"
    /\ resources' = Dedup(globbed)
    /\ idx' = 1
    /\ bpc' = "loop"
    /\ UNCHANGED <<globbed, reading, codes>>
    /\ UNCHANGED <<pc, callVars, walkVars, pluginVars, parked>>

LoopSkip ==
    /\ bpc = "loop" /\ ~Suspended
    /\ idx <= Len(resources) /\ ~IsResourceFile(resources[idx])
    /\ idx' = idx + 1
    /\ UNCHANGED <<globbed, resources, reading, codes, bpc>>
    /\ UNCHANGED <<pc, callVars, walkVars, pluginVars, parked>>

ReadStart ==
    /\ bpc = "loop" /\ ~Suspended
    /\ idx <= Len(resources) /\ IsResourceFile(resources[idx])
    /\ reading' = reading \cup {idx}
    /\ idx' = idx + 1
    /\ UNCHANGED <<globbed, resources, codes, bpc>>
    /\ UNCHANGED <<pc, callVars, walkVars, pluginVars, parked>>

ReadDone ==
    /\ \E j \in reading :
        /\ reading' = reading \ {j}
        /\ codes' = Append(codes, Entry(resources[j]))
    /\ UNCHANGED <<globbed, resources, idx, bpc>>
    /\ UNCHANGED <<pc, callVars, walkVars, pluginVars, parked>>

LoadReturn ==
    /\ bpc = "loop" /\ ~Suspended
    /\ idx > Len(resources)
    /\ bpc' = "done"
    /\ UNCHANGED <<globbed, resources, idx, reading, codes>>
    /\ UNCHANGED <<pc, callVars, walkVars, pluginVars, parked>>

InitBundle ==
    /\ globbed \in UNION {PathLists(n) : n \in 0..MaxPaths}
    /\ resources = <<>>
    /\ idx = 1
    /\ reading = {}
    /\ codes = <<>>
    /\ bpc = "load"
    /\ opts = [type |-> "none"]
    /\ noMapFor = {}
    /\ source = NoNode
    /\ ast = NoNode
    /\ result = NoResult
    /\ pc = "idle"
    /\ WalkStart
    /\ NoOtherCalls
    /\ NoPlugin

NextBundle == LoadBegin \/ LoopSkip \/ ReadStart \/ ReadDone \/ LoadReturn

SpecBundle == InitBundle /\ [][NextBundle]_vars

(***************************************************************************)
(* The choice of the generator at each call site of the plugin, and the    *)
(* options the site builds for the compile.                                *)
(***************************************************************************)
Extensions == {".json", ".json5", ".yml", ".yaml", ".js", ".mjs", ".cjs", ".ts", ".css"}
\* The lang attribute of a custom block; "" when there is none.
Languages == {"", "json", "json5", "yaml", "yml", "js", "ts", "i18n"}

\* transform of a resource file: `getGenerator(parsePath(filename).ext)`,
\* when the id passes the extension test and the filter.
ResourceGenerator(ext, included) ==
    IF IsTransformedFile(ext) /\ included THEN getGenerator(ext) ELSE "none"

\* transform of a custom block: langInfo, then
\* `/\.?json5?/.test(langInfo) ? generateJSON : generateYAML`.
BlockLangInfo(lang, src, defaultSFCLang) ==
    IF lang # ""
    THEN (IF src THEN (IF lang = "i18n" THEN defaultSFCLang ELSE lang) ELSE lang)
    ELSE defaultSFCLang
BlockGenerator(lang, src, defaultSFCLang) ==
    IF BlockLangInfo(lang, src, defaultSFCLang) \in {"json", "json5", ".json", ".json5"}
    THEN "generateJSON" ELSE "generateYAML"

\* The wrapped esbuild transform: `filter(id) && /\.[c|m]?ts$/.test(id)`,
\* then getGenerator.
EsbuildGenerator(ext, included) ==
    IF included /\ ext \in {".ts", ".cts", ".mts", "|ts"} THEN getGenerator(ext) ELSE "none"

Chosen(generate) == [kind |-> "generator", generate |-> generate]

\* What generateBundleResources gives getOptions: load calls it with
\* { forceStringify, bridge, strictMessage, escapeHtml, exportESM,
\* useClassComponent }, so isGlobal, onlyLocales and jit are its parameter
\* defaults, and legacy, which it does not pass on, is getOptions' default.
BundleOptions ==
    [isGlobal |-> FALSE, useClassComponent |-> plugin.useClassComponent,
     bridge |-> plugin.bridge, jit |-> FALSE, legacy |-> FALSE,
     onlyLocales |-> <<>>, exportESM |-> plugin.esm,
     forceStringify |-> plugin.forceStringify]

SelectResource ==
    /\ tpc = "select" /\ request.site = "resource"
    /\ returned' = Chosen(ResourceGenerator(request.name, request.included))
    /\ opts' = IF ResourceGenerator(request.name, request.included) = "none" THEN opts
               ELSE getOptions([vue |-> FALSE, type |-> "", blockType |-> "",
                                locale |-> "", global |-> FALSE, ext |-> request.name],
                               plugin.sourceMap, ResourceOptions)
    /\ tpc' = "selected"
    /\ UNCHANGED <<pc, noMapFor, source, ast, result, walkVars>>
    /\ UNCHANGED <<plugin, request, bundleVars, parked>>

SelectBlock ==
    /\ tpc = "select" /\ request.site = "block"
    /\ returned' = Chosen(BlockGenerator(request.name, request.src, plugin.defaultSFCLang))
    /\ opts' = getOptions([vue |-> TRUE, type |-> "custom", blockType |-> "",
                           locale |-> "", global |-> FALSE, ext |-> ".vue"],
                          plugin.sourceMap, BlockOptions)
    /\ tpc' = "selected"
    /\ UNCHANGED <<pc, noMapFor, source, ast, result, walkVars>>
    /\ UNCHANGED <<plugin, request, bundleVars, parked>>

\* The wrapper gives getOptions the options the custom-block branch gives it
\* (and allowDynamic, which is not part of this model).
SelectEsbuild ==
    /\ tpc = "select" /\ request.site = "esbuild"
    /\ returned' = Chosen(EsbuildGenerator(request.name, request.included))
    /\ opts' = IF EsbuildGenerator(request.name, request.included) = "none" THEN opts
               ELSE getOptions([vue |-> FALSE, type |-> "", blockType |-> "",
                                locale |-> "", global |-> FALSE, ext |-> request.name],
                               plugin.sourceMap, BlockOptions)
    /\ tpc' = "selected"
    /\ UNCHANGED <<pc, noMapFor, source, ast, result, walkVars>>
    /\ UNCHANGED <<plugin, request, bundleVars, parked>>

\* `getOptions(res, isProduction, {}, false, {...})`, then
\* `parseOptions.type = 'bare'`.
SelectBundle ==
    /\ tpc = "select" /\ request.site = "bundle"
    /\ returned' = Chosen(BundleGenerator(request.name))
    /\ opts' = IF BundleGenerator(request.name) = "none" THEN opts
               ELSE [getOptions([vue |-> FALSE, type |-> "", blockType |-> "",
                                 locale |-> "", global |-> FALSE, ext |-> request.name],
                                FALSE, BundleOptions) EXCEPT !.type = "bare"]
    /\ tpc' = "selected"
    /\ UNCHANGED <<pc, noMapFor, source, ast, result, walkVars>>
    /\ UNCHANGED <<plugin, request, bundleVars, parked>>

Selections ==
    [site : {"resource", "esbuild"}, name : Extensions, included : BOOLEAN,
     src : {FALSE}, code : TransformDocuments]
    \cup [site : {"bundle"}, name : Extensions, included : {TRUE},
          src : {FALSE}, code : TransformDocuments]
    \cup [site : {"block"}, name : Languages, included : {TRUE},
          src : BOOLEAN, code : TransformDocuments]

InitSelect ==
    /\ plugin \in {[defaultSFCLang |-> lang] @@ c :
                      lang \in {"json", "yml"},
                      c \in {k \in PluginConfigs : k.framework = "vite"}}
    /\ request \in Selections
    /\ tpc = "select"
    /\ returned = [kind |-> "none"]
    /\ opts = [type |-> "none"]
    /\ noMapFor = {}
    /\ source = NoNode
    /\ ast = NoNode
    /\ result = NoResult
    /\ pc = "idle"
    /\ WalkStart
    /\ NoOtherCalls
    /\ NoBundle

NextSelect == SelectResource \/ SelectBlock \/ SelectEsbuild \/ SelectBundle

SpecSelect == InitSelect /\ [][NextSelect]_vars

(***************************************************************************)
(* vite: one module id passes the plugin's transform (enforce: 'pre') and  *)
(* then the wrapped transform of vite:json.                                *)
(***************************************************************************)
\* Whether the plugin's transform compiles the id.
TransformCompiles(query) ==
    IF ~query.vue THEN IsTransformedFile(query.ext) /\ query.included
    ELSE isCustomBlock(query)

\* Mutant of JsonLeftToPlugin: the filter is not consulted.
JsonLeftToPluginByName(query) == query.ext # ".json"
\* `!/\.json$/.test(id) || filter(id)`
JsonLeftToPlugin(query) == query.ext # ".json" \/ query.included

Pipeline(i18n, json) == [kind |-> "pipeline", i18n |-> i18n, json |-> json]

PluginTransform ==
    /\ tpc = "pre"
    /\ returned' = Pipeline(IF TransformCompiles(request) THEN "compiled" ELSE "skipped",
                            "pending")
    /\ tpc' = "json"
    /\ UNCHANGED <<pc, callVars, walkVars, plugin, request, bundleVars, parked>>

\* The wrapper returns at its first test.
JsonReturnsFiltered ==
    /\ tpc = "json"
    /\ JsonLeftToPlugin(request)
    /\ returned' = Pipeline(returned.i18n, "returned")
    /\ tpc' = "end"
    /\ UNCHANGED <<pc, callVars, walkVars, plugin, request, bundleVars, parked>>

\* The wrapper returns for a request of vite:vue.
JsonReturnsVue ==
    /\ tpc = "json"
    /\ ~JsonLeftToPlugin(request) /\ request.vue
    /\ returned' = Pipeline(returned.i18n, "returned")
    /\ tpc' = "end"
    /\ UNCHANGED <<pc, callVars, walkVars, plugin, request, bundleVars, parked>>

\* The wrapper calls the transform it replaced.
JsonCallsOriginal ==
    /\ tpc = "json"
    /\ ~JsonLeftToPlugin(request) /\ ~request.vue
    /\ returned' = Pipeline(returned.i18n, "original")
    /\ tpc' = "end"
    /\ UNCHANGED <<pc, callVars, walkVars, plugin, request, bundleVars, parked>>

\* The ids: what the id ends with, its vue query, what the filter says.
ModuleIds ==
    [vue : BOOLEAN, type : {"", "custom", "i18n", "template"}, blockType : {"", "i18n"},
     ext : Extensions \cup {".vue"}, included : BOOLEAN]

InitJson ==
    /\ plugin = [framework |-> "vite"]
    /\ request \in ModuleIds
    /\ tpc = "pre"
    /\ returned = Pipeline("pending", "pending")
    /\ opts = [type |-> "none"]
    /\ noMapFor = {}
    /\ source = NoNode
    /\ ast = NoNode
    /\ result = NoResult
    /\ pc = "idle"
    /\ WalkStart
    /\ NoOtherCalls
    /\ NoBundle

NextJson == PluginTransform \/ JsonReturnsFiltered \/ JsonReturnsVue \/ JsonCallsOriginal

SpecJson == InitJson /\ [][NextJson]_vars

(***************************************************************************)
(* Several transform calls of one plugin instance.  transform is async: a  *)
(* call runs until it awaits getCode or returns, and only then may another *)
(* call run.  The running call's frame is in request, opts, source, ast,   *)
(* result, pc, tpc and returned; the frames of the others are parked.      *)
(***************************************************************************)
\* How many transform calls are in progress together.
MaxCalls == 3

Frame(r, o, s, a, res, p, t, ret) ==
    [request |-> r, opts |-> o, source |-> s, ast |-> a, result |-> res,
     pc |-> p, tpc |-> t, returned |-> ret]
NewCall(r) ==
    Frame(r, [type |-> "none"], NoNode, NoNode, NoResult, "idle", "transform",
          [kind |-> "none"])
Running == Frame(request, opts, source, ast, result, pc, tpc, returned)

\* The running call is not inside a synchronous stretch: it has not begun,
\* it waits for getCode's promise, or it has returned or thrown.
Yields == tpc \in {"transform", "getCode", "returned", "threw"}

\* The event loop takes up another call.
Resume ==
    /\ Yields
    /\ \E i \in 1..Len(parked) :
          /\ parked[i].tpc \in {"transform", "getCode"}
          /\ request' = parked[i].request
          /\ opts' = parked[i].opts
          /\ source' = parked[i].source
          /\ ast' = parked[i].ast
          /\ result' = parked[i].result
          /\ pc' = parked[i].pc
          /\ tpc' = parked[i].tpc
          /\ returned' = parked[i].returned
          /\ parked' = [parked EXCEPT ![i] = Running]
    /\ UNCHANGED <<noMapFor, plugin, walkVars, bundleVars>>

ConcurrentDocuments ==
    {d \in TransformDocuments :
        /\ Len(d.body[1].content.pairs) = 1
        /\ d.body[1].content.pairs[1].key = YAMLScalar(StrV("en"))
        /\ d.body[1].content.pairs[1].value.type \in {"YAMLMapping", "YAMLSequence"}}

ConcurrentRequests ==
    {r \in Requests :
        /\ r.code \in ConcurrentDocuments
        /\ r.locale = ""
        /\ IF r.vue THEN r.type = "custom" /\ r.index
           ELSE r.ext = ".yaml" /\ r.included}

InitConcurrent ==
    /\ plugin \in {c \in PluginConfigs :
                      /\ c.framework = "vite"
                      /\ ~c.jitCompilation
                      /\ c.onlyLocales = <<>>}
    /\ request \in ConcurrentRequests
    /\ parked \in [1..(MaxCalls - 1) -> {NewCall(r) : r \in ConcurrentRequests}]
    /\ tpc = "transform"
    /\ returned = [kind |-> "none"]
    /\ opts = [type |-> "none"]
    /\ noMapFor = {}
    /\ source = NoNode
    /\ ast = NoNode
    /\ result = NoResult
    /\ pc = "idle"
    /\ WalkStart
    /\ NoBundle

NextConcurrent == NextTransform \/ Resume

SpecConcurrent == InitConcurrent /\ [][NextConcurrent]_vars

(***************************************************************************)
(* Reading the generated code back: the value expression inside the        *)
(* document wrapper, its brackets and its separators.                      *)
(***************************************************************************)
IsMarker(t) == t \in {Text("const resource = "), Text("\"resource\": ")}
IsWrapperEnd(t) == t \in {Text("\n"), Text("})")}
\* The tokens at the wrapper's value position.
Body(c) ==
    LET starts == {i \in 1..Len(c) : IsMarker(c[i])}
        ends == {i \in 1..Len(c) : IsWrapperEnd(c[i])}
        first == IF starts = {} THEN Len(c)
                 ELSE CHOOSE i \in starts : \A j \in starts : i <= j
        last == IF ends = {} THEN Len(c) + 1
                ELSE CHOOSE i \in ends : \A j \in ends : i <= j
    IN SubSeq(c, first + 1, last - 1)

IsOpen(t) == t \in {Text("{"), Text("[")}
IsClose(t) == t \in {Text("}"), Text("]")}
Closer(t) == IF t = Text("{") THEN Text("}") ELSE Text("]")
DepthBefore(b, i) ==
    Cardinality({j \in 1..(i - 1) : IsOpen(b[j])})
    - Cardinality({j \in 1..(i - 1) : IsClose(b[j])})
\* The index of the bracket closing the one opened at i (past the end if none).
Match(b, i) ==
    LET cs == {j \in (i + 1)..Len(b) :
                  IsClose(b[j]) /\ DepthBefore(b, j) = DepthBefore(b, i) + 1}
    IN IF cs = {} THEN Len(b) + 1 ELSE CHOOSE j \in cs : \A k \in cs : j <= k
\* The separators directly inside the bracket opened at i.
Separators(b, i) ==
    {j \in (i + 1)..(Match(b, i) - 1) :
        b[j] = Text(",") /\ DepthBefore(b, j) = DepthBefore(b, i) + 1}
Occurrences(b, tok) == {i \in 1..Len(b) : b[i] = tok}
\* The index of the k-th occurrence of tok.
Kth(b, tok, k) ==
    CHOOSE i \in Occurrences(b, tok) :
        Cardinality({j \in Occurrences(b, tok) : j <= i}) = k

RECURSIVE Preorder(_), PreorderAll(_)
\* The nodes of a tree in document order.
Preorder(n) == <<n>> \o PreorderAll(Children(n))
PreorderAll(ns) ==
    IF ns = <<>> THEN <<>> ELSE Preorder(Head(ns)) \o PreorderAll(Tail(ns))
NodesOfType(root, type) == SelectSeq(Preorder(root), LAMBDA n : n.type = type)

\* The brackets `open` of the finished output are the containers cs in
\* document order, and each with at least one child has one separator less
\* than children directly inside it.
OneSeparatorLess(open, cs, size(_)) ==
    LET b == Body(code)
    IN /\ Cardinality(Occurrences(b, open)) = Len(cs)
       /\ \A k \in 1..Len(cs) :
            size(cs[k]) >= 1 =>
                Cardinality(Separators(b, Kth(b, open, k))) = size(cs[k]) - 1

\* The position of the node being left among its parent's children, and
\* whether it is the last of them.
LeavingLast ==
    LET up == visit[Len(visit) - 1]
    IN up.next = Len(Children(up.node))

(***************************************************************************)
(* C1: for every mapping with N >= 1 pairs, at any depth and whatever the  *)
(* pair values are, the finished output has exactly N-1 separators         *)
(* directly inside that mapping's braces, and leaving a pair writes a      *)
(* separator exactly when the pair is not the last of its mapping.         *)
(***************************************************************************)
C1_Count ==
    pc = "walked" =>
        OneSeparatorLess(Text("{"), NodesOfType(ast, "YAMLMapping"),
                         LAMBDA m : Len(m.pairs))
C1_Step ==
    (CanLeave /\ LeaveNode.type = "YAMLPair") =>
        code' = IF LeavingLast THEN code ELSE Append(code, Text(","))
C1_MappingSeparators == []C1_Count /\ [][C1_Step]_vars

\* A mapping of two pairs whose first value is a container has been emitted.
C1_Witness ==
    /\ pc = "walked"
    /\ \E m \in {NodesOfType(ast, "YAMLMapping")[k] :
                    k \in 1..Len(NodesOfType(ast, "YAMLMapping"))} :
          /\ Len(m.pairs) = 2
          /\ m.pairs[1].value.type \in {"YAMLMapping", "YAMLSequence"}
    /\ Cardinality(Occurrences(Body(code), Text(","))) >= 1

(***************************************************************************)
(* C2: for every sequence with N >= 1 entries the finished output has      *)
(* exactly N-1 separators directly inside that sequence's brackets.        *)
(***************************************************************************)
C2_SequenceSeparators ==
    pc = "walked" =>
        OneSeparatorLess(Text("["), NodesOfType(ast, "YAMLSequence"),
                         LAMBDA q : Len(q.entries))

(***************************************************************************)
(* C3: every invocation of the message compiler is passed the ancestry of  *)
(* its leaf: the key of each enclosing pair and the index of each          *)
(* enclosing sequence entry, from the root down.                           *)
(***************************************************************************)
RECURSIVE LeafPaths(_, _), PairPaths(_, _), EntryPaths(_, _, _)
\* The ancestry paths of the compiled leaves under n, in document order.
LeafPaths(n, path) ==
    CASE n.type = "YAMLScalar" -> IF Compiles(n.value) THEN <<path>> ELSE <<>>
      [] n.type = "YAMLMapping" -> PairPaths(n.pairs, path)
      [] n.type = "YAMLSequence" -> EntryPaths(n.entries, 0, path)
      [] OTHER -> <<>>
PairPaths(ps, path) ==
    IF ps = <<>> THEN <<>>
    ELSE LeafPaths(Head(ps).value, Append(path, Head(ps).key.value.s))
         \o PairPaths(Tail(ps), path)
EntryPaths(es, i, path) ==
    IF es = <<>> THEN <<>>
    ELSE LeafPaths(Head(es), Append(path, ToString(i)))
         \o EntryPaths(Tail(es), i + 1, path)
\* A scalar at the root is neither a pair value nor an entry: never compiled.
Ancestries ==
    LET root == ast.body[1].content
    IN IF root.type = "YAMLScalar" THEN <<>> ELSE LeafPaths(root, <<>>)

C3_PathIsAncestry ==
    \A i \in 1..Len(calls) :
        i <= Len(Ancestries) /\ calls[i].path = Ancestries[i]

(***************************************************************************)
(* C4: for type sfc, a non-empty onlyLocales and an empty locale option,   *)
(* the tree that is emitted (by the walker or by the legacy emitter) has   *)
(* exactly the top-level keys of the source that onlyLocales lists.        *)
(***************************************************************************)
\* The top-level keys of the finished output, as they are written.
EmittedKeys ==
    IF \E i \in 1..Len(result.code) : result.code[i].k = "serialized"
    THEN LET v == result.code[CHOOSE i \in 1..Len(result.code) :
                                  result.code[i].k = "serialized"].v
         IN {JSONstringify(StrV(v.props[i].key)) : i \in 1..Len(v.props)}
    ELSE LET b == Body(result.code)
         IN {b[i].v : i \in {j \in 1..Len(b) : b[j].k = "key" /\ DepthBefore(b, j) = 1}}
SourceKeys ==
    LET ps == source.body[1].content.pairs
    IN {ps[i].key.value : i \in 1..Len(ps)}
ListedKeys ==
    {JSONstringify(k) : k \in {j \in SourceKeys : j.s \in Range(opts.onlyLocales)}}

C4_OnlyListedLocales ==
    (pc = "done" /\ opts.type = "sfc" /\ opts.onlyLocales # <<>> /\ opts.locale = "")
        => EmittedKeys = ListedKeys

\* The same for every value of the locale option.
C4_AnyLocale ==
    (pc = "done" /\ opts.type = "sfc" /\ opts.onlyLocales # <<>>)
        => EmittedKeys = ListedKeys

\* {en: {a: x}, fr: {a: x}} with onlyLocales = [en], walked: only en is left.
C4_Witness ==
    LET m == YAMLMapping(<<YAMLPair(YAMLScalar(StrV("a")), YAMLScalar(StrV("x")))>>)
    IN /\ pc = "done"
       /\ opts.type = "sfc" /\ opts.onlyLocales = <<"en">> /\ opts.locale = ""
       /\ ~opts.legacy
       /\ source = Program(<<YAMLDocument(YAMLMapping(
                      <<YAMLPair(YAMLScalar(StrV("en")), m),
                        YAMLPair(YAMLScalar(StrV("fr")), m)>>))>>)
       /\ EmittedKeys = {"\"en\""}
       /\ Len(calls) = 1

(***************************************************************************)
(* C5: when the legacy option is set and the type is sfc, generate takes   *)
(* the legacy path: the walker emits nothing, the compiler is never        *)
(* called, no merged map is made, and the output is the registration       *)
(* snippet around one serialisation of the whole materialised value.       *)
(***************************************************************************)
Serialisations(c) == {i \in 1..Len(c) : c[i].k = "serialized"}
LegacyOutput ==
    /\ code = <<>>
    /\ calls = <<>>
    /\ pc \notin {"walk", "walked"}
    /\ pc = "done" =>
        /\ Cardinality(Serialisations(result.code)) = 1
        /\ \A i \in Serialisations(result.code) :
             /\ result.code[i].v = getStaticYAMLValue(ast)
             /\ \A j \in 1..Len(result.code) : j # i => result.code[j].k = "text"
        /\ result.map.kind # "merged"

C5_LegacyPath == (opts.legacy /\ opts.type = "sfc" /\ pc # "generate") => LegacyOutput

\* The same for every generation type.
C5_LegacyAnyType == (opts.legacy /\ pc # "generate") => LegacyOutput

\* {en: {a: x}} in legacy mode: one literal {"en":{"a":"x"}} in the snippet.
C5_Witness ==
    /\ pc = "done"
    /\ opts.legacy /\ opts.type = "sfc" /\ opts.onlyLocales = <<>>
    /\ source = Program(<<YAMLDocument(YAMLMapping(
                   <<YAMLPair(YAMLScalar(StrV("en")),
                        YAMLMapping(<<YAMLPair(YAMLScalar(StrV("a")),
                                               YAMLScalar(StrV("x")))>>))>>))>>)
    /\ \E i \in Serialisations(result.code) :
          result.code[i].v =
              JSObject(<<Prop("en", JSObject(<<Prop("a", JSScalar(StrV("x")))>>))>>)

(***************************************************************************)
(* C6: a non-string scalar leaf (pair value or sequence entry) is, with    *)
(* forceStringify, compiled exactly once from JSON.stringify(value) and    *)
(* the returned code written; without it, its bare JSON literal is         *)
(* written, the compiler is not invoked and codeMaps gets no entry for it. *)
(***************************************************************************)
RECURSIVE LeafValues(_), LeafValuesAll(_)
\* The values of the scalar leaves under n, in document order.
LeafValues(n) ==
    CASE n.type = "YAMLScalar" -> <<n.value>>
      [] n.type = "YAMLMapping" ->
            LeafValuesAll([i \in 1..Len(n.pairs) |-> n.pairs[i].value])
      [] n.type = "YAMLSequence" -> LeafValuesAll(n.entries)
      [] OTHER -> <<>>
LeafValuesAll(ns) ==
    IF ns = <<>> THEN <<>> ELSE LeafValues(Head(ns)) \o LeafValuesAll(Tail(ns))
Leaves ==
    LET root == ast.body[1].content
    IN IF root.type = "YAMLScalar" THEN <<>> ELSE LeafValues(root)
\* The tokens written for leaves: compiled code or a bare literal.
LeafTokens ==
    SelectSeq(code, LAMBDA t :
        t.k \in {"json", "generateResourceAst", "generateMessageFunction"})
\* The number of leaves among the first k that go through the compiler.
CompiledUpTo(k) ==
    Cardinality({j \in 1..k : Leaves[j].t = "string" \/ opts.forceStringify})

C6_NonStringLeaves ==
    pc = "walked" =>
        /\ Len(LeafTokens) = Len(Leaves)
        /\ Len(calls) = CompiledUpTo(Len(Leaves))
        /\ \A k \in 1..Len(Leaves) :
            Leaves[k].t # "string" =>
                IF opts.forceStringify
                THEN /\ calls[CompiledUpTo(k)].literal = JSONstringify(Leaves[k])
                     /\ LeafTokens[k] = Tok(codegenFn, JSONstringify(Leaves[k]))
                ELSE LeafTokens[k] = Tok("json", JSONstringify(Leaves[k]))
        /\ ~opts.forceStringify =>
            DOMAIN codeMaps \subseteq
                {Leaves[k].s : k \in {j \in 1..Len(Leaves) : Leaves[j].t = "string"}}

\* With forceStringify, a number that is a pair value inside a sequence entry
\* was compiled from its JSON text.
C6_Witness ==
    /\ pc = "walked"
    /\ opts.forceStringify
    /\ Leaves = <<NumV("5")>>
    /\ Len(calls) = 1
    /\ calls[1].literal = "5"
    /\ ast.body[1].content.type = "YAMLSequence"
    /\ Len(NodesOfType(ast, "YAMLMapping")) = 1

(***************************************************************************)
(* C7: the map transform returns is the map generate returned exactly     *)
(* when sourceMap is enabled and jitCompilation is disabled, and           *)
(* {mappings: ''} otherwise; it is the merged document map exactly when,   *)
(* besides, the walker path was taken; when sourceMap is disabled          *)
(* mapLinesColumns is never called.                                        *)
(***************************************************************************)
Returned == tpc = "returned" /\ returned.kind = "result"
NoMergeWithoutSourceMap ==
    ~plugin.sourceMap => (returned.map = TrivialMap /\ result.map.kind # "merged")

C7_TransformMap ==
    Returned =>
        /\ returned.map = IF plugin.sourceMap /\ ~plugin.jitCompilation
                          THEN result.map ELSE TrivialMap
        /\ returned.map.kind = "merged"
             <=> (plugin.sourceMap /\ ~plugin.jitCompilation
                    /\ ~(request.vue /\ plugin.legacy))
        /\ NoMergeWithoutSourceMap

\* The merged map exactly when sourceMap is enabled, whatever the other
\* options.
C7_WheneverSourceMap ==
    Returned =>
        /\ returned.map.kind = "merged" <=> plugin.sourceMap
        /\ NoMergeWithoutSourceMap

\* A resource file with one compiled leaf, sourceMap on, jitCompilation off.
C7_Witness ==
    /\ Returned
    /\ plugin.sourceMap /\ ~plugin.jitCompilation
    /\ ~request.vue
    /\ returned.map.kind = "merged"
    /\ DOMAIN returned.map.codeMaps = {"x"}

(***************************************************************************)
(* C8: the emitted code is structurally complete: the wrapper's value      *)
(* position holds a non-empty expression whose brackets are closed in      *)
(* properly nested order.                                                  *)
(***************************************************************************)
RECURSIVE Nested(_, _, _)
\* The brackets of b from i on close, in order, the open brackets `open`.
Nested(b, i, open) ==
    IF i > Len(b) THEN open = <<>>
    ELSE IF IsOpen(b[i]) THEN Nested(b, i + 1, Append(open, Closer(b[i])))
    ELSE IF IsClose(b[i])
         THEN /\ open # <<>>
              /\ open[Len(open)] = b[i]
              /\ Nested(b, i + 1, Pop(open))
    ELSE Nested(b, i + 1, open)

C8_CompleteCode ==
    pc = "walked" => Body(code) # <<>> /\ Nested(Body(code), 1, <<>>)

(***************************************************************************)
(* C9: codeMaps holds one entry per literal the compiler returned a map    *)
(* for, and only with sourceMap: the map returned for the last leaf with   *)
(* that literal.                                                           *)
(***************************************************************************)
CallsOf(literal) == {i \in 1..Len(calls) : calls[i].literal = literal}
LastCallOf(literal) ==
    CHOOSE i \in CallsOf(literal) : \A j \in CallsOf(literal) : j <= i

C9_CodeMapsPerLiteral ==
    /\ \A literal \in DOMAIN codeMaps :
        /\ opts.sourceMap
        /\ CallsOf(literal) # {}
        /\ codeMaps[literal] = calls[LastCallOf(literal)].map
        /\ codeMaps[literal] # NoMap
    /\ \A i \in 1..Len(calls) :
        (opts.sourceMap /\ calls[i].map # NoMap) => calls[i].literal \in DOMAIN codeMaps

\* A string leaf and a stringified number share the entry of the literal 5,
\* which holds the map of the second of them.
C9_Witness ==
    /\ pc = "walked"
    /\ opts.sourceMap
    /\ opts.forceStringify
    /\ Leaves = <<StrV("5"), NumV("5")>>
    /\ DOMAIN codeMaps = {"5"}
    /\ codeMaps["5"] = calls[2].map
    /\ calls[1].map # calls[2].map

(***************************************************************************)
(* C10: generateBundleResources pushes one entry per resource path that   *)
(* matches json, json5, yml or yaml, in the order of the de-duplicated     *)
(* list (first occurrence kept); a read is outstanding only for the        *)
(* resource after the ones whose entries are pushed, so no timing of the   *)
(* reads reorders the output.                                              *)
(***************************************************************************)
RECURSIVE FirstOccurrences(_, _)
FirstOccurrences(q, seen) ==
    IF q = <<>> THEN <<>>
    ELSE IF Head(q) \in seen THEN FirstOccurrences(Tail(q), seen)
    ELSE <<Head(q)>> \o FirstOccurrences(Tail(q), seen \cup {Head(q)})
Matching(q) ==
    SelectSeq(q, LAMBDA res : res.ext \in {".json", ".json5", ".yml", ".yaml"})
Sources(cs) == [i \in 1..Len(cs) |-> cs[i].source]

C10_EntriesInOrder ==
    LET expected == FirstOccurrences(globbed, {})
    IN /\ bpc = "done" =>
            /\ reading = {}
            /\ Sources(codes) = Matching(expected)
            /\ \A i \in 1..Len(codes) :
                 codes[i].name = JSONstringify(StrV(codes[i].source.name))
       /\ \A j \in reading :
            /\ reading = {j}
            /\ Sources(codes) = Matching(SubSeq(expected, 1, j - 1))

\* Three paths found, one of them twice: two entries, in the order found.
C10_Witness ==
    /\ bpc = "done"
    /\ Len(globbed) = 3 /\ Len(resources) = 2
    /\ globbed[1] = globbed[3]
    /\ Len(codes) = 2
    /\ Sources(codes) = <<globbed[1], globbed[2]>>

(***************************************************************************)
(* C12: within one call every leaf is compiled with the strategy the jit   *)
(* option selects, whatever the leaf's depth, container or position.       *)
(***************************************************************************)
Strategy == IF opts.jit THEN "generateResourceAst" ELSE "generateMessageFunction"
C12_OneStrategy ==
    /\ \A i \in 1..Len(calls) : calls[i].fn = Strategy
    /\ \A i \in 1..Len(code) :
         code[i].k \in {"generateResourceAst", "generateMessageFunction"}
            => code[i].k = Strategy

\* With jit, a leaf under a pair and a leaf in a sequence have been compiled.
C12_Witness ==
    /\ pc = "done"
    /\ opts.jit
    /\ Len(calls) = 2
    /\ calls[1].path = <<"en", "a">> /\ calls[2].path = <<"fr", "0">>
    /\ calls[1].fn = "generateResourceAst" /\ calls[2].fn = "generateResourceAst"

(***************************************************************************)
(* C16: for every mapping, pair, sequence and scalar, the path stack is as *)
(* long after leaveNode of the node as it was before enterNode of it.      *)
(***************************************************************************)
C16_Balanced ==
    (CanLeave /\ LeaveNode.type \in {"YAMLMapping", "YAMLPair", "YAMLSequence", "YAMLScalar"})
        => Len(pathStack') = Cur.depth
C16_PathBalance == [][C16_Balanced]_vars

(***************************************************************************)
(* C17: propsCountStack holds one counter per open mapping and             *)
(* itemsCountStack one per open sequence, each the number of children of   *)
(* its container not entered yet (an empty entry is never entered), never  *)
(* negative.                                                               *)
(***************************************************************************)
\* The children of the i-th open node that have been entered.
Entered(i) == IF i < Len(visit) THEN visit[i].next ELSE visit[i].next - 1
OpenOfType(type) ==
    SelectSeq([i \in 1..Len(visit) |-> i], LAMBDA i : visit[i].node.type = type)
NotEntered(type, size(_)) ==
    LET open == OpenOfType(type)
    IN [k \in 1..Len(open) |-> size(visit[open[k]].node) - Entered(open[k])]

C17_SiblingCounters ==
    /\ propsCountStack = NotEntered("YAMLMapping", LAMBDA m : Len(m.pairs))
    /\ itemsCountStack = NotEntered("YAMLSequence", LAMBDA q : Len(q.entries))
    /\ \A i \in 1..Len(propsCountStack) : propsCountStack[i] >= 0
    /\ \A i \in 1..Len(itemsCountStack) : itemsCountStack[i] >= 0

(***************************************************************************)
(* C18: when the traversal has completed, pathStack, propsCountStack and   *)
(* itemsCountStack are all empty.                                          *)
(***************************************************************************)
C18_StacksEmptyAtEnd ==
    pc = "walked" => (pathStack = <<>> /\ propsCountStack = <<>> /\ itemsCountStack = <<>>)

(***************************************************************************)
(* C19: a separator never directly follows an opening brace or another     *)
(* separator: no separator is written for a pair that wrote no key.        *)
(***************************************************************************)
C19_NoEmptyEntry ==
    \A i \in 2..Len(code) :
        code[i] = Text(",") => code[i - 1] \notin {Text("{"), Text(",")}

(***************************************************************************)
(* C13: the generator is chosen from the extension or the block language   *)
(* alone.  For files, .json and .json5 select the JSON generator, .yml and *)
(* .yaml the YAML generator, .js, .mjs, .cjs (resource transform) and .ts  *)
(* (esbuild transform) the plain-module generator, and the call sites that *)
(* compile an extension agree on it; a custom block selects the JSON       *)
(* generator for json and json5 and the YAML generator for every other     *)
(* language.                                                               *)
(***************************************************************************)
ByExtension(ext) ==
    CASE ext \in {".json", ".json5"} -> "generateJSON"
      [] ext \in {".yml", ".yaml"} -> "generateYAML"
      [] ext \in {".js", ".mjs", ".cjs", ".ts"} -> "generateJavaScript"
      [] OTHER -> "none"
Compiled == tpc = "selected" /\ returned.generate # "none"
BlockLanguage ==
    IF request.name = "" \/ (request.src /\ request.name = "i18n")
    THEN plugin.defaultSFCLang ELSE request.name

CompileRan == tpc = "returned" /\ pc = "done"
ReturnsGenerated == returned.kind = "result" => returned.code = result.code

C14_NoResultWhenUnchanged ==
    CompileRan =>
        /\ returned.kind = "undefined" <=> result.code = TextOf(request.code)
        /\ ReturnsGenerated

\* The text compared is the source that was compiled.
C14_ComparedWithCompiled ==
    CompileRan =>
        /\ returned.kind = "undefined" <=> result.code = TextOf(source)
        /\ ReturnsGenerated

\* A resource file whose text is what the walker generates from it.
C14_Witness ==
    /\ CompileRan
    /\ ~request.vue
    /\ returned.kind = "undefined"
    /\ result.code = PlainModuleText.tokens

(***************************************************************************)
(* C15: a compile call in which the error callback fires ends with the     *)
(* error the callback throws, whose message names the file, and no         *)
(* generated code reaches the bundler.                                     *)
(***************************************************************************)
Names(error, filename) == \E i \in 1..Len(error.message) : error.message[i] = filename

C15_ErrorEndsCall ==
    /\ pc = "threw" =>
        /\ Names(result.error, Filename(request))
        /\ result.code = <<>>
        /\ tpc \in {"generate", "threw"}
        /\ returned.kind \in {"none", "error"}
    /\ tpc = "threw" /\ request.vue /\ request.index =>
        /\ pc = "threw"
        /\ returned = [kind |-> "error", error |-> result.error]

\* The message `{` of a custom block was rejected: transform ended with the
\* error that names the component file.
C15_Witness ==
    /\ tpc = "threw" /\ pc = "threw"
    /\ request.vue
    /\ returned.kind = "error"
    /\ Names(returned.error, "file.vue")
    /\ calls = <<>>

(***************************************************************************)
(* C20: under vite no id is compiled by the plugin's transform and also    *)
(* handed to the original json transform, and a .json id without a vue     *)
(* query that the filter rejects is handed to the original.                *)
(***************************************************************************)
C20_NotTransformedTwice ==
    tpc = "end" =>
        /\ ~(returned.i18n = "compiled" /\ returned.json = "original")
        /\ (request.ext = ".json" /\ ~request.vue /\ ~request.included)
              => returned.json = "original"

\* An included .json file: compiled by the plugin, left alone by vite:json.
C20_Witness ==
    /\ tpc = "end"
    /\ request.ext = ".json" /\ ~request.vue /\ request.included
    /\ returned = Pipeline("compiled", "returned")

\* C11: calls of one plugin instance that run interleaved, one of them
\* possibly waiting in getCode meanwhile, do not interfere: a call's result
\* is the result the same request gives in a call that ran before any other
\* call began, whatever ran in between.
Finished == {f \in {Running} \cup {parked[i] : i \in 1..Len(parked)} :
                f.tpc \in {"returned", "threw"}}
C11_CallsDoNotInterfere ==
    \A f, g \in Finished :
        f.request = g.request => f.returned = g.returned /\ f.result = g.result
C11_Witness ==
    /\ tpc = "returned" /\ returned.kind = "result"
    /\ \E i, j \in 1..Len(parked) :
          /\ parked[i].tpc = "returned" /\ parked[i].request # request
          /\ parked[i].returned.kind = "result"
          /\ parked[j].tpc = "getCode" /\ parked[j].request = request


\* C21: under one plugin configuration every call site that compiles
\* (transform of a resource file, transform of a custom block, the wrapped
\* esbuild transform, generateBundleResources) gives the compiler the
\* configured jitCompilation as jit, the configured onlyLocales and the
\* configured legacy.
C21_SameOptionsAtEverySite ==
    (tpc = "selected" /\ returned.generate # "none") =>
        /\ opts.jit = plugin.jitCompilation
        /\ opts.onlyLocales = plugin.onlyLocales
        /\ opts.legacy = plugin.legacy

====
